---------------------------- MODULE Spec2Model ----------------------------
(***************************************************************************)
(* Model of the Monte Carlo Arithmetic backend                             *)
(* src/backends/interflop-mca/interflop_mca.c.                             *)
(*                                                                         *)
(* Floating-point values are modelled at the bit level: a value is a       *)
(* record [sign, exponent, mantissa] holding the three IEEE-754 fields of  *)
(* its type (binary32, binary64 or binary128).  The mantissa field is up   *)
(* to 112 bits wide, so it is an arbitrary-precision natural number: a     *)
(* little-endian sequence of 15-bit limbs without leading zero limbs.      *)
(* Arithmetic is computed exactly and rounded to nearest-even once, as the *)
(* hardware (binary64) and libgcc (binary128) do.                          *)
(***************************************************************************)
EXTENDS Integers, Sequences, FiniteSets, TLC

(***************************************************************************)
(* Arbitrary-precision naturals                                            *)
(***************************************************************************)
Pow2(n) == 2^n

LimbBase == Pow2(15)

IMax(a, b) == IF a >= b THEN a ELSE b
IMin(a, b) == IF a <= b THEN a ELSE b

\* number of bits of a limb value (0 for 0)
RECURSIVE LimbLen(_)
LimbLen(x) == IF x = 0 THEN 0 ELSE 1 + LimbLen(x \div 2)

LimbBits == LimbLen(LimbBase - 1)

RECURSIVE BNorm(_)
BNorm(a) ==
  IF a = <<>> THEN <<>>
  ELSE IF a[Len(a)] = 0 THEN BNorm(SubSeq(a, 1, Len(a) - 1))
  ELSE a

BZero == <<>>
BOfInt(n) == BNorm(<<n % LimbBase, (n \div LimbBase) % LimbBase, n \div (LimbBase * LimbBase)>>)

BLimb(a, i) == IF i >= 1 /\ i <= Len(a) THEN a[i] ELSE 0

RECURSIVE BAddC(_, _, _)
BAddC(a, b, c) ==
  IF a = <<>> /\ b = <<>> THEN (IF c = 0 THEN <<>> ELSE <<c>>)
  ELSE LET x == BLimb(a, 1) + BLimb(b, 1) + c
       IN  <<x % LimbBase>> \o
           BAddC(IF a = <<>> THEN <<>> ELSE Tail(a),
                 IF b = <<>> THEN <<>> ELSE Tail(b), x \div LimbBase)

BAdd(a, b) == BAddC(a, b, 0)

\* a - b for a >= b
RECURSIVE BSubC(_, _, _)
BSubC(a, b, c) ==
  IF a = <<>> THEN <<>>
  ELSE LET x == a[1] - BLimb(b, 1) - c
       IN  <<IF x < 0 THEN x + LimbBase ELSE x>> \o
           BSubC(Tail(a), IF b = <<>> THEN <<>> ELSE Tail(b), IF x < 0 THEN 1 ELSE 0)

BSub(a, b) == BNorm(BSubC(a, b, 0))

\* -1, 0, 1 as a < b, a = b, a > b (both canonical)
RECURSIVE BCmpFrom(_, _, _)
BCmpFrom(a, b, i) ==
  IF i = 0 THEN 0
  ELSE IF a[i] < b[i] THEN -1
  ELSE IF a[i] > b[i] THEN 1
  ELSE BCmpFrom(a, b, i - 1)

BCmp(a, b) ==
  IF Len(a) < Len(b) THEN -1
  ELSE IF Len(a) > Len(b) THEN 1
  ELSE BCmpFrom(a, b, Len(a))

\* a * m + c for a limb m and a carry c
RECURSIVE BMulLimb(_, _, _)
BMulLimb(a, m, c) ==
  IF a = <<>> THEN (IF c = 0 THEN <<>> ELSE <<c>>)
  ELSE LET x == a[1] * m + c
       IN  <<x % LimbBase>> \o BMulLimb(Tail(a), m, x \div LimbBase)

RECURSIVE BMul(_, _)
BMul(a, b) ==
  IF b = <<>> \/ a = <<>> THEN <<>>
  ELSE BAdd(BNorm(BMulLimb(a, b[1], 0)), BNorm(<<0>> \o BMul(a, Tail(b))))

BBitLen(a) == IF a = <<>> THEN 0 ELSE (Len(a) - 1) * LimbBits + LimbLen(a[Len(a)])

\* bit k (0 = least significant)
BBit(a, k) ==
  IF k < 0 THEN 0
  ELSE (BLimb(a, (k \div LimbBits) + 1) \div Pow2(k % LimbBits)) % 2

\* a * 2^k
BShl(a, k) ==
  IF a = <<>> \/ k <= 0 THEN a
  ELSE [i \in 1..(k \div LimbBits) |-> 0] \o BNorm(BMulLimb(a, Pow2(k % LimbBits), 0))

\* floor(a / 2^k)
BShr(a, k) ==
  IF k <= 0 THEN a
  ELSE LET q == k \div LimbBits
           r == k % LimbBits
       IN  IF q >= Len(a) THEN <<>>
           ELSE BNorm([i \in 1..(Len(a) - q) |->
                        (a[i + q] \div Pow2(r)) +
                        (BLimb(a, i + q + 1) % Pow2(r)) * Pow2(LimbBits - r)])

\* a mod 2^k # 0
BLowNonzero(a, k) ==
  IF k <= 0 THEN FALSE
  ELSE \E i \in 1..Len(a) :
         /\ a[i] # 0
         /\ \/ i <= k \div LimbBits
            \/ i = (k \div LimbBits) + 1 /\ a[i] % Pow2(k % LimbBits) # 0

\* number of trailing zero bits of a # 0
BTrailingZeros(a) ==
  CHOOSE k \in 0..BBitLen(a) : BBit(a, k) = 1 /\ ~BLowNonzero(a, k)

\* long division, bits i down to lo of n brought down into the remainder r;
\* r2 is the remainder with bit i brought down
RECURSIVE BDivStep(_, _, _, _, _, _)
BDivBit(n, d, i, lo, q, r2) ==
  \* the length is taken to evaluate q before the next step
  IF Len(q) >= 0 /\ BCmp(r2, d) >= 0
    THEN BDivStep(n, d, i - 1, lo, BMulLimb(q, 2, 1), BSub(r2, d))
    ELSE BDivStep(n, d, i - 1, lo, BMulLimb(q, 2, 0), r2)

BDivStep(n, d, i, lo, q, r) ==
  IF i < lo THEN [q |-> q, r |-> r]
  ELSE BDivBit(n, d, i, lo, q, BMulLimb(r, 2, BBit(n, i)))

\* one limb of quotient at a time, to keep the evaluation shallow
RECURSIVE BDivLimbs(_, _, _, _, _)
BDivNext(n, d, i, s) == BDivLimbs(n, d, i, s.q, s.r)

BDivLimbs(n, d, i, q, r) ==
  IF i < 0 THEN [q |-> q, r |-> r]
  ELSE BDivNext(n, d, i - LimbBits, BDivStep(n, d, i, IMax(0, i - LimbBits + 1), q, r))

\* [q |-> floor(n / d), r |-> n mod d]
BDivRem(n, d) == BDivLimbs(n, d, BBitLen(n) - 1, <<>>, <<>>)

(***************************************************************************)
(* IEEE-754 binary formats (common/float_const.h, common/float_struct.h)   *)
(***************************************************************************)
binary32  == [ebits |-> 8,  mbits |-> 23]
binary64  == [ebits |-> 11, mbits |-> 52]
binary128 == [ebits |-> 15, mbits |-> 112]

Bias(fmt)        == Pow2(fmt.ebits - 1) - 1
ExpFieldMax(fmt) == Pow2(fmt.ebits) - 1
EMin(fmt)        == 1 - Bias(fmt)

FltZero(s, fmt) == [sign |-> s, exponent |-> 0, mantissa |-> <<>>]
FltInf(s, fmt)  == [sign |-> s, exponent |-> ExpFieldMax(fmt), mantissa |-> <<>>]
\* the quiet NaN every invalid operation and every NaN operand yields
FltNaN(fmt)     == [sign |-> 0, exponent |-> ExpFieldMax(fmt),
                    mantissa |-> BShl(<<1>>, fmt.mbits - 1)]

\* fpclassify() on a value of format fmt
FPCLASSIFY(x, fmt) ==
  IF x.exponent = ExpFieldMax(fmt)
    THEN (IF x.mantissa = <<>> THEN "FP_INFINITE" ELSE "FP_NAN")
  ELSE IF x.exponent = 0
    THEN (IF x.mantissa = <<>> THEN "FP_ZERO" ELSE "FP_SUBNORMAL")
  ELSE "FP_NORMAL"

IsFiniteNonzero(x, fmt) == FPCLASSIFY(x, fmt) \in {"FP_NORMAL", "FP_SUBNORMAL"}

\* The exact value (-1)^sign * mag * 2^exp of a finite value
ToReal(x, fmt) ==
  IF x.exponent = 0
    THEN [sign |-> x.sign, mag |-> x.mantissa, exp |-> EMin(fmt) - fmt.mbits]
    ELSE [sign |-> x.sign, mag |-> BAdd(x.mantissa, BShl(<<1>>, fmt.mbits)),
          exp |-> x.exponent - Bias(fmt) - fmt.mbits]

\* floor(log2 |r|) of a non-zero exact value
RealExp(r) == BBitLen(r.mag) - 1 + r.exp

\* Round an exact value to format fmt, to nearest, ties to even
\* the significand m, whose last bit has exponent q, stored into the fields of
\* fmt: subnormal, overflow to infinity, or normal with the biased exponent
RoundPack(s, m, q, fmt) ==
  IF BBitLen(m) <= fmt.mbits
    THEN [sign |-> s, exponent |-> 0, mantissa |-> m]
  ELSE IF q + fmt.mbits + Bias(fmt) >= ExpFieldMax(fmt) THEN FltInf(s, fmt)
  ELSE [sign |-> s, exponent |-> q + fmt.mbits + Bias(fmt),
        mantissa |-> BSub(m, BShl(<<1>>, fmt.mbits))]

\* the incremented significand m1 may have carried into the next binade
RoundCarry(s, m1, q, fmt) ==
  RoundPack(s, IF BBitLen(m1) = fmt.mbits + 2 THEN BShr(m1, 1) ELSE m1,
            IF BBitLen(m1) = fmt.mbits + 2 THEN q + 1 ELSE q, fmt)

\* m0 is mag without its k low bits: increment on round bit and (sticky or odd)
RoundTie(s, mag, m0, k, q, fmt) ==
  RoundCarry(s,
             IF BBit(mag, k - 1) = 1 /\ (BLowNonzero(mag, k - 1) \/ BBit(m0, 0) = 1)
               THEN BAdd(m0, <<1>>) ELSE m0,
             q, fmt)

\* q is the exponent of the last kept bit
RoundAt(r, q, fmt) ==
  RoundTie(r.sign, r.mag,
           IF q <= r.exp THEN BShl(r.mag, r.exp - q) ELSE BShr(r.mag, q - r.exp),
           q - r.exp, q, fmt)

RoundReal(r, fmt) ==
  IF r.mag = <<>> THEN FltZero(r.sign, fmt)
  ELSE RoundAt(r, IMax(RealExp(r), EMin(fmt)) - fmt.mbits, fmt)

\* Conversion between formats (widening is exact, narrowing rounds)
Convert(x, from, to) ==
  LET c == FPCLASSIFY(x, from)
  IN  IF c = "FP_NAN" THEN FltNaN(to)
      ELSE IF c = "FP_INFINITE" THEN FltInf(x.sign, to)
      ELSE IF c = "FP_ZERO" THEN FltZero(x.sign, to)
      ELSE RoundReal(ToReal(x, from), to)

FNeg(x) == [x EXCEPT !.sign = 1 - x.sign]

\* Exact sum of two non-zero exact values whose operands are values of fmt; a
\* term too small to reach the rounding position is replaced by a sticky bit.
RealAddAligned(sb, mb, ss, ms, e) ==
  IF sb = ss THEN [sign |-> sb, mag |-> BAdd(mb, ms), exp |-> e]
  ELSE IF BCmp(mb, ms) = 0 THEN [sign |-> 0, mag |-> <<>>, exp |-> e]
  ELSE IF BCmp(mb, ms) > 0 THEN [sign |-> sb, mag |-> BSub(mb, ms), exp |-> e]
  ELSE [sign |-> ss, mag |-> BSub(ms, mb), exp |-> e]

RealAddAt(big, sm, e) ==
  RealAddAligned(big.sign, BShl(big.mag, big.exp - e), sm.sign, BShl(sm.mag, sm.exp - e), e)

\* the smaller term, or a sticky bit gap places below the leading bit tb
RealSticky(sm0, tb, gap) ==
  IF RealExp(sm0) < tb - gap
    THEN [sign |-> sm0.sign, mag |-> <<1>>, exp |-> tb - gap - 1]
    ELSE sm0

RealAddPair(big, sm) == RealAddAt(big, sm, IMin(big.exp, sm.exp))

RealAdd(rx, ry, fmt) ==
  RealAddPair(IF RealExp(rx) >= RealExp(ry) THEN rx ELSE ry,
              RealSticky(IF RealExp(rx) >= RealExp(ry) THEN ry ELSE rx,
                         IMax(RealExp(rx), RealExp(ry)), fmt.mbits + 5))

\* x + y in format fmt
FAdd(x, y, fmt) ==
  LET cx == FPCLASSIFY(x, fmt)
      cy == FPCLASSIFY(y, fmt)
  IN  IF cx = "FP_NAN" \/ cy = "FP_NAN" THEN FltNaN(fmt)
      ELSE IF cx = "FP_INFINITE" /\ cy = "FP_INFINITE"
        THEN (IF x.sign = y.sign THEN x ELSE FltNaN(fmt))
      ELSE IF cx = "FP_INFINITE" THEN x
      ELSE IF cy = "FP_INFINITE" THEN y
      ELSE IF cx = "FP_ZERO" /\ cy = "FP_ZERO"
        THEN FltZero(IF x.sign = y.sign THEN x.sign ELSE 0, fmt)
      ELSE IF cx = "FP_ZERO" THEN y
      ELSE IF cy = "FP_ZERO" THEN x
      ELSE RoundReal(RealAdd(ToReal(x, fmt), ToReal(y, fmt), fmt), fmt)

FSub(x, y, fmt) == FAdd(x, FNeg(y), fmt)

FMul(x, y, fmt) ==
  LET cx == FPCLASSIFY(x, fmt)
      cy == FPCLASSIFY(y, fmt)
      s  == (x.sign + y.sign) % 2
  IN  IF cx = "FP_NAN" \/ cy = "FP_NAN" THEN FltNaN(fmt)
      ELSE IF cx = "FP_INFINITE" \/ cy = "FP_INFINITE"
        THEN (IF cx = "FP_ZERO" \/ cy = "FP_ZERO" THEN FltNaN(fmt) ELSE FltInf(s, fmt))
      ELSE IF cx = "FP_ZERO" \/ cy = "FP_ZERO" THEN FltZero(s, fmt)
      ELSE LET rx == ToReal(x, fmt)
               ry == ToReal(y, fmt)
           IN  RoundReal([sign |-> s, mag |-> BMul(rx.mag, ry.mag),
                          exp |-> rx.exp + ry.exp], fmt)

\* the quotient dr.q with a sticky bit for a non-zero remainder
RealDivSticky(s, dr, e, fmt) ==
  RoundReal([sign |-> s, mag |-> BMulLimb(dr.q, 2, IF dr.r = <<>> THEN 0 ELSE 1),
             exp |-> e], fmt)

RealDivAt(s, rx, ry, sh, fmt) ==
  RealDivSticky(s, BDivRem(BShl(rx.mag, sh), ry.mag), rx.exp - sh - ry.exp - 1, fmt)

\* rx / ry rounded to fmt, with enough quotient bits for a round bit and a sticky bit
RealDiv(s, rx, ry, fmt) ==
  RealDivAt(s, rx, ry, IMax(0, fmt.mbits + 3 - (BBitLen(rx.mag) - BBitLen(ry.mag))), fmt)

FDiv(x, y, fmt) ==
  LET cx == FPCLASSIFY(x, fmt)
      cy == FPCLASSIFY(y, fmt)
      s  == (x.sign + y.sign) % 2
  IN  IF cx = "FP_NAN" \/ cy = "FP_NAN" THEN FltNaN(fmt)
      ELSE IF cx = "FP_INFINITE"
        THEN (IF cy = "FP_INFINITE" THEN FltNaN(fmt) ELSE FltInf(s, fmt))
      ELSE IF cy = "FP_INFINITE" THEN FltZero(s, fmt)
      ELSE IF cy = "FP_ZERO"
        THEN (IF cx = "FP_ZERO" THEN FltNaN(fmt) ELSE FltInf(s, fmt))
      ELSE IF cx = "FP_ZERO" THEN FltZero(s, fmt)
      ELSE RealDiv(s, ToReal(x, fmt), ToReal(y, fmt), fmt)

\* x < y and x <= y on finite values of format fmt
RealLessAligned(rx, ry, mx, my) ==
  IF rx.sign = 1 /\ ry.sign = 0 THEN rx.mag # <<>> \/ ry.mag # <<>>
  ELSE IF rx.sign = 0 /\ ry.sign = 1 THEN FALSE
  ELSE IF rx.sign = 0 THEN BCmp(mx, my) < 0
  ELSE BCmp(mx, my) > 0

RealLess(rx, ry) ==
  RealLessAligned(rx, ry, BShl(rx.mag, rx.exp - IMin(rx.exp, ry.exp)),
                  BShl(ry.mag, ry.exp - IMin(rx.exp, ry.exp)))

FLess(x, y, fmt) ==
  LET cx == FPCLASSIFY(x, fmt)
      cy == FPCLASSIFY(y, fmt)
  IN  IF cx = "FP_NAN" \/ cy = "FP_NAN" THEN FALSE
      ELSE IF cx = "FP_INFINITE" THEN x.sign = 1 /\ ~(cy = "FP_INFINITE" /\ y.sign = 1)
      ELSE IF cy = "FP_INFINITE" THEN y.sign = 0
      ELSE RealLess(ToReal(x, fmt), ToReal(y, fmt))

FEq(x, y, fmt) ==
  /\ FPCLASSIFY(x, fmt) # "FP_NAN"
  /\ FPCLASSIFY(y, fmt) # "FP_NAN"
  /\ \/ x = y
     \/ FPCLASSIFY(x, fmt) = "FP_ZERO" /\ FPCLASSIFY(y, fmt) = "FP_ZERO"

FLessEq(x, y, fmt) == FLess(x, y, fmt) \/ FEq(x, y, fmt)

\* the value n * 2^e (n a small natural) in format fmt
FltOf(s, n, e, fmt) == RoundReal([sign |-> s, mag |-> BOfInt(n), exp |-> e], fmt)

(***************************************************************************)
(* common/float_utils.h                                                    *)
(***************************************************************************)
\* GET_EXP_FLT: the unbiased exponent e with 2^e <= |x| < 2^(e+1); for a
\* subnormal the minimum exponent minus the leading zeros of the mantissa
GET_EXP_FLT(x, fmt) == RealExp(ToReal(x, fmt))

\* _IS_REPRESENTABLE: the bits of x below its t leading significant bits are zero
_IS_REPRESENTABLE(x, t, fmt) ==
  IF ~IsFiniteNonzero(x, fmt) THEN TRUE
  ELSE LET r == ToReal(x, fmt)
       IN  ~BLowNonzero(r.mag, BBitLen(r.mag) - t)

\* DAZ / FTZ: a subnormal becomes a zero of the same sign
DAZ(x, fmt) == IF FPCLASSIFY(x, fmt) = "FP_SUBNORMAL" THEN FltZero(x.sign, fmt) ELSE x
FTZ(x, fmt) == IF FPCLASSIFY(x, fmt) = "FP_SUBNORMAL" THEN FltZero(x.sign, fmt) ELSE x

(***************************************************************************)
(* common/rng/vfc_rng.h                                                    *)
(***************************************************************************)
\* get_rand_double01: a double of the open interval (0, 1), here the least
\* draw 2^-53, the middle 1/2 and 3/4
get_rand_double01 ==
  { FltOf(0, 1, -53, binary64), FltOf(0, 1, -1, binary64), FltOf(0, 3, -2, binary64) }

\* _mca_skip_eval: with sparsity >= 1 never skips and draws nothing, else
\* skips when the draw u exceeds the sparsity
SkipDraws(sparsity) == IF FLessEq(FltOf(0, 1, 0, binary32), sparsity, binary32) THEN 0 ELSE 1
_mca_skip_eval(sparsity, u) ==
  /\ SkipDraws(sparsity) = 1
  /\ FLess(Convert(sparsity, binary32, binary64), u, binary64)

(***************************************************************************)
(* interflop_mca.c: modes, precisions                                      *)
(***************************************************************************)
mcamode == {"mcamode_ieee", "mcamode_mca", "mcamode_pb", "mcamode_rr"}

MCA_PRECISION_BINARY32_MIN == 1
MCA_PRECISION_BINARY64_MIN == 1
MCA_PRECISION_BINARY32_MAX == 53
MCA_PRECISION_BINARY64_MAX == 112
MCA_PRECISION_BINARY32_DEFAULT == 24
MCA_PRECISION_BINARY64_DEFAULT == 53
MCA_MODE_DEFAULT == "mcamode_mca"

(***************************************************************************)
(* interflop_mca.c: noise                                                  *)
(***************************************************************************)
\* b.ieee.exponent = b.ieee.exponent + exp: the sum is stored into the
\* exponent bit-field of the format (11 or 15 bits wide), which keeps its low bits
AddToExponentField(x, exp, fmt) ==
  [x EXCEPT !.exponent = (x.exponent + exp) % Pow2(fmt.ebits)]

\* noise = rand * 2^(exp), u the double get_rand_double01 returned
_noise_binary64(exp, u) ==
  LET d_rand == FSub(u, FltOf(0, 1, -1, binary64), binary64)
  IN  AddToExponentField(d_rand, exp, binary64)

_noise_binary128(exp, u) ==
  LET noise == FSub(Convert(u, binary64, binary128), FltOf(0, 1, -1, binary128), binary128)
  IN  AddToExponentField(noise, exp, binary128)

\* _NOISE: selected by the type W of X
_NOISE(W, exp, u) ==
  IF W = binary64 THEN _noise_binary64(exp, u) ELSE _noise_binary128(exp, u)

_IS_IEEE_MODE(mode) == mode = "mcamode_ieee"

_IS_NOT_NORMAL_OR_SUBNORMAL(x, W) ==
  FPCLASSIFY(x, W) # "FP_NORMAL" /\ FPCLASSIFY(x, W) # "FP_SUBNORMAL"

\* variant: the class of x is not looked at
_MUST_NOT_BE_NOISED_any_class(mode, x, t, W) ==
  \/ mode = "mcamode_ieee"
  \/ (mode = "mcamode_rr" /\ _IS_REPRESENTABLE(x, t, W))

\* variant: random rounding perturbs representable values too
_MUST_NOT_BE_NOISED_rr_always(mode, x, t, W) ==
  \/ mode = "mcamode_ieee"
  \/ (FPCLASSIFY(x, W) # "FP_NORMAL" /\ FPCLASSIFY(x, W) # "FP_SUBNORMAL")

_MUST_NOT_BE_NOISED(mode, x, t, W) ==
  \/ mode = "mcamode_ieee"
  \/ (FPCLASSIFY(x, W) # "FP_NORMAL" /\ FPCLASSIFY(x, W) # "FP_SUBNORMAL")
  \/ (mode = "mcamode_rr" /\ _IS_REPRESENTABLE(x, t, W))

\* _INEXACT on a value x of type W.  us, ur, ua are the values the sparsity
\* draw, the relative-noise draw and the absolute-noise draw return when they
\* are made.  Result: the new value of *X, the number of draws made and the
\* noise values added (a sequence of length 0 or 1 each).
\* *X = *X + noise if the error mode asks for it
AddNoiseIf(enabled, x, noise, W) == IF enabled THEN FAdd(x, noise, W) ELSE x

\* lines 278-288: the relative noise, then the absolute noise
_INEXACT_noised(c, x, W, noise_rel, noise_abs) ==
  [x |-> AddNoiseIf(c.absErr, AddNoiseIf(c.relErr, x, noise_rel, W), noise_abs, W),
   draws |-> SkipDraws(c.sparsity) + (IF c.relErr THEN 1 ELSE 0)
                                  + (IF c.absErr THEN 1 ELSE 0),
   noise_rel |-> IF c.relErr THEN <<noise_rel>> ELSE <<>>,
   noise_abs |-> IF c.absErr THEN <<noise_abs>> ELSE <<>>]

_INEXACT(mode, c, x, t, W, us, ur, ua) ==
  IF _MUST_NOT_BE_NOISED(mode, x, t, W)
    THEN [x |-> x, draws |-> 0, noise_rel |-> <<>>, noise_abs |-> <<>>]
  ELSE IF _mca_skip_eval(c.sparsity, us)
    THEN [x |-> x, draws |-> SkipDraws(c.sparsity), noise_rel |-> <<>>, noise_abs |-> <<>>]
  ELSE \* e_n_rel = e_a - (t - 1), e_n_abs = ctx->absErr_exp
       _INEXACT_noised(c, x, W, _NOISE(W, GET_EXP_FLT(x, W) - (t - 1), ur),
                       _NOISE(W, c.absErr_exp, ua))

\* _FAST_INEXACT on a value x of type W: relative noise whatever the
\* sparsity, the error mode and the representability of x; ur is the value the
\* draw returns.  returned: the macro has executed its return statement.
_FAST_INEXACT_noised(x, W, noise_rel) ==
  [returned |-> FALSE, x |-> FAdd(x, noise_rel, W), draws |-> 1, noise_rel |-> <<noise_rel>>]

\* variant: the fast path keeps the guards of _INEXACT
_FAST_INEXACT_guarded(mode, x, t, W, ur) ==
  IF _MUST_NOT_BE_NOISED(mode, x, t, W)
    THEN [returned |-> TRUE, x |-> x, draws |-> 0, noise_rel |-> <<>>]
  ELSE _FAST_INEXACT_noised(x, W, _NOISE(W, GET_EXP_FLT(x, W) - (t - 1), ur))

_FAST_INEXACT(mode, x, t, W, ur) ==
  IF _IS_IEEE_MODE(mode) \/ _IS_NOT_NORMAL_OR_SUBNORMAL(x, W)
    THEN [returned |-> TRUE, x |-> x, draws |-> 0, noise_rel |-> <<>>]
  ELSE _FAST_INEXACT_noised(x, W, _NOISE(W, GET_EXP_FLT(x, W) - (t - 1), ur))

(***************************************************************************)
(* Program state                                                           *)
(***************************************************************************)
VARIABLES
  phase,               \* "start", "parsing", "ready" (interflop_init returned) or "fatal"
  nopts,               \* options argp_parse has handed to parse_opt
  MCALIB_MODE,         \* static mcamode MCALIB_MODE
  MCALIB_BINARY32_T,   \* static int MCALIB_BINARY32_T
  MCALIB_BINARY64_T,   \* static int MCALIB_BINARY64_T
  ctx,                 \* the t_context interflop_init allocates
  rng_seeded,          \* _init_rng_state_struct has run on the thread
  pc,                  \* position inside _MCA_BINARY_OP, "idle" between calls
  call,                \* arguments of the call in progress: [ty, a, b, op]
  _A, _B, _RES,        \* locals of _MCA_BINARY_OP, of the working type
  trace,               \* steps the call in progress has performed, in order
  ret,                 \* the call that has just returned to the host, with its result
  rng_state,           \* static __thread rng_state_t rng_state: one instance per host thread
  global_tid,          \* static pid_t global_tid
  thread,              \* per host thread: the RNG operations left in the macro it executes
  access               \* what the last step of a host thread touched

\* host threads running in parallel
NThreads == 2
Threads == 1..NThreads

thread_vars == <<rng_state, global_tid, thread, access>>

vars == <<phase, nopts, MCALIB_MODE, MCALIB_BINARY32_T, MCALIB_BINARY64_T, ctx,
          rng_seeded, pc, call, _A, _B, _RES, trace, ret, thread_vars>>

\* thread-local storage starts zeroed (line 195)
NoRngState ==
  [choose_seed |-> FALSE, seed |-> 0, random_state_valid |-> FALSE,
   seeded_by |-> 0, tid |-> 0, drawn |-> FALSE]

\* no instance of rng_state touched, global_tid not touched
NoAccess == [thread |-> 0, op |-> "none", instance |-> 0, global_tid |-> FALSE]

\* the statics before any host thread has called the backend (lines 191, 195)
ThreadsIdle ==
  /\ rng_state = [t \in Threads |-> NoRngState]
  /\ global_tid = 0
  /\ thread = [t \in Threads |-> <<>>]
  /\ access = NoAccess

config_vars == <<phase, nopts, MCALIB_MODE, MCALIB_BINARY32_T, MCALIB_BINARY64_T, ctx>>

\* the operand types of the two entry points and their working types
OperandType(ty) == IF ty = "float" THEN binary32 ELSE binary64
WorkingType(ty) == IF ty = "float" THEN binary64 ELSE binary128

mca_operations == {"mca_add", "mca_sub", "mca_mul", "mca_div"}

\* init_context
init_context ==
  [relErr |-> TRUE, absErr |-> FALSE, absErr_exp |-> 112, choose_seed |-> FALSE,
   daz |-> FALSE, ftz |-> FALSE, seed |-> 0, sparsity |-> FltOf(0, 1, 0, binary32)]

NoCall == [kind |-> "none"]
NoLocal == FltZero(0, binary64)

(***************************************************************************)
(* _MCA_BINARY_OP, one action per statement group                          *)
(***************************************************************************)
\* PERFORM_BIN_OP at the working type W
PERFORM_BIN_OP(op, a, b, W) ==
  CASE op = "mca_add" -> FAdd(a, b, W)
    [] op = "mca_mul" -> FMul(a, b, W)
    [] op = "mca_sub" -> FSub(a, b, W)
    [] op = "mca_div" -> FDiv(a, b, W)

\* _mca_inexact_binary64 uses MCALIB_BINARY32_T, _mca_inexact_binary128 MCALIB_BINARY64_T
VirtualPrecision(ty) == IF ty = "float" THEN MCALIB_BINARY32_T ELSE MCALIB_BINARY64_T

\* _INEXACT_BINARYN(X, A, CTX): dispatch on the working type
_INEXACT_BINARYN(ty, x, us, ur, ua) ==
  _INEXACT(MCALIB_MODE, ctx, x, VirtualPrecision(ty), WorkingType(ty), us, ur, ua)

\* the values a draw can return when the code makes it; a draw the code does
\* not make has no value to choose
DrawsIf(made) == IF made THEN get_rand_double01 ELSE {FltOf(0, 1, -1, binary64)}

\* the record of one _INEXACT_BINARYN call in the trace
InexactStep(name, before, r) ==
  [step |-> name, draws |-> r.draws, before |-> <<before>>, after |-> <<r.x>>,
   noise_rel |-> r.noise_rel, noise_abs |-> r.noise_abs]

PlainStep(name) ==
  [step |-> name, draws |-> 0, before |-> <<>>, after |-> <<>>,
   noise_rel |-> <<>>, noise_abs |-> <<>>]

\* variant: DAZ applied to the widened local
DazInput_widened(c, a, ty) ==
  LET w == Convert(a, OperandType(ty), WorkingType(ty))
  IN  IF c.daz THEN DAZ(w, WorkingType(ty)) ELSE w

\* lines 340-346: the locals are initialised, then DAZ if ctx->daz
DazInput(c, a, ty) ==
  Convert(IF c.daz THEN DAZ(a, OperandType(ty)) ELSE a, OperandType(ty), WorkingType(ty))

BinaryOpCall(ty, a, b, op) ==
  /\ phase = "ready" /\ pc = "idle" /\ ret = NoCall
  /\ call' = [ty |-> ty, a |-> a, b |-> b, op |-> op]
  /\ _A' = DazInput(ctx, a, ty)
  /\ _B' = DazInput(ctx, b, ty)
  /\ _RES' = FltZero(0, WorkingType(ty))
  /\ trace' = IF ctx.daz THEN <<PlainStep("DAZ")>> ELSE <<>>
  /\ pc' = "inexact_A"
  /\ UNCHANGED <<thread_vars, config_vars, rng_seeded, ret>>

\* variant: the inputs are perturbed in random-rounding mode too
InputNoiseMode_rr(mode) == mode # "mcamode_ieee"

\* line 347
InputNoiseMode(mode) == mode = "mcamode_pb" \/ mode = "mcamode_mca"

\* line 348
InexactA ==
  /\ pc = "inexact_A"
  /\ IF InputNoiseMode(MCALIB_MODE)
       THEN \E us \in DrawsIf(SkipDraws(ctx.sparsity) = 1) :
              \E ur \in DrawsIf(ctx.relErr) :
                \E ua \in DrawsIf(ctx.absErr) :
                  \E r \in {_INEXACT_BINARYN(call.ty, _A, us, ur, ua)} :
                    /\ _A' = r.x
                    /\ trace' = Append(trace, InexactStep("INEXACT_A", _A, r))
                    /\ rng_seeded' = TRUE
       ELSE UNCHANGED <<_A, trace, rng_seeded>>
  /\ pc' = "inexact_B"
  /\ UNCHANGED <<thread_vars, config_vars, call, _B, _RES, ret>>

\* line 349
InexactB ==
  /\ pc = "inexact_B"
  /\ IF InputNoiseMode(MCALIB_MODE)
       THEN \E us \in DrawsIf(SkipDraws(ctx.sparsity) = 1) :
              \E ur \in DrawsIf(ctx.relErr) :
                \E ua \in DrawsIf(ctx.absErr) :
                  \E r \in {_INEXACT_BINARYN(call.ty, _B, us, ur, ua)} :
                    /\ _B' = r.x
                    /\ trace' = Append(trace, InexactStep("INEXACT_B", _B, r))
                    /\ rng_seeded' = TRUE
       ELSE UNCHANGED <<_B, trace, rng_seeded>>
  /\ pc' = "perform"
  /\ UNCHANGED <<thread_vars, config_vars, call, _A, _RES, ret>>

\* line 351
Perform ==
  /\ pc = "perform"
  /\ _RES' = PERFORM_BIN_OP(call.op, _A, _B, WorkingType(call.ty))
  /\ trace' = Append(trace, PlainStep("OP"))
  /\ pc' = "inexact_RES"
  /\ UNCHANGED <<thread_vars, config_vars, rng_seeded, call, _A, _B, ret>>

\* line 352
OutputNoiseMode(mode) == mode = "mcamode_rr" \/ mode = "mcamode_mca"

\* line 353
InexactRes ==
  /\ pc = "inexact_RES"
  /\ IF OutputNoiseMode(MCALIB_MODE)
       THEN \E us \in DrawsIf(SkipDraws(ctx.sparsity) = 1) :
              \E ur \in DrawsIf(ctx.relErr) :
                \E ua \in DrawsIf(ctx.absErr) :
                  \E r \in {_INEXACT_BINARYN(call.ty, _RES, us, ur, ua)} :
                    /\ _RES' = r.x
                    /\ trace' = Append(trace, InexactStep("INEXACT_RES", _RES, r))
                    /\ rng_seeded' = TRUE
       ELSE UNCHANGED <<_RES, trace, rng_seeded>>
  /\ pc' = "return"
  /\ UNCHANGED <<thread_vars, config_vars, call, _A, _B, ret>>

\* variant: FTZ applied without the cast to the operand type
FtzResult_uncast(c, res, ty) == IF c.ftz THEN FTZ(res, WorkingType(ty)) ELSE res

\* lines 355-357: _RES = FTZ((typeof(A))_RES) if ctx->ftz
FtzResult(c, res, ty) ==
  LET narrowed == Convert(res, WorkingType(ty), OperandType(ty))
  IN  IF c.ftz THEN Convert(FTZ(narrowed, OperandType(ty)), OperandType(ty), WorkingType(ty))
      ELSE res

\* lines 355-358: FTZ, then return (typeof(A))(_RES); the locals die
Return ==
  /\ pc = "return"
  /\ ret' = [kind |-> "binary_op", ty |-> call.ty, a |-> call.a, b |-> call.b,
             op |-> call.op, res |-> _RES,
             value |-> Convert(FtzResult(ctx, _RES, call.ty),
                               WorkingType(call.ty), OperandType(call.ty)),
             trace |-> IF ctx.ftz THEN Append(trace, PlainStep("FTZ")) ELSE trace]
  /\ call' = NoCall /\ _A' = NoLocal /\ _B' = NoLocal /\ _RES' = NoLocal
  /\ trace' = <<>>
  /\ pc' = "idle"
  /\ UNCHANGED <<thread_vars, config_vars, rng_seeded>>

\* the hook (_INTERFLOP_OP_CALL) has stored the returned value into *c and the
\* host program goes on
HostContinues ==
  /\ phase = "ready" /\ pc = "idle" /\ ret # NoCall
  /\ ret' = NoCall
  /\ UNCHANGED <<thread_vars, config_vars, rng_seeded, pc, call, _A, _B, _RES, trace>>

(***************************************************************************)
(* User calls                                                              *)
(***************************************************************************)
FTYPES == {"FFLOAT", "FDOUBLE", "FQUAD"}

\* the type of *value for each ftype
FtypeFormat(ftype) ==
  CASE ftype = "FFLOAT" -> binary32 [] ftype = "FDOUBLE" -> binary64 [] ftype = "FQUAD" -> binary128

\* _interflop_usercall_inexact: the precision handed to _FAST_INEXACT, the
\* value left in *value, the draws made and the noise added
\* lines 408 and 414: a precision <= 0 is relative to the configured one
RelativePrecision(T, precision) == IF precision <= 0 THEN T + precision ELSE precision

\* the store *((float *)value) = xd (or xq) after _FAST_INEXACT, which the
\* return statement of the macro skips; r is what _FAST_INEXACT did at type W
StoreInexact(t, r, value, W, fmt) ==
  [t |-> t, draws |-> r.draws, noise_rel |-> r.noise_rel, returned |-> r.returned,
   value |-> IF r.returned THEN value
             ELSE IF W = fmt THEN r.x ELSE Convert(r.x, W, fmt)]

_interflop_usercall_inexact(ftype, value, precision, ur) ==
  CASE ftype = "FFLOAT" ->
         StoreInexact(RelativePrecision(MCALIB_BINARY32_T, precision),
                      _FAST_INEXACT(MCALIB_MODE, Convert(value, binary32, binary64),
                                    RelativePrecision(MCALIB_BINARY32_T, precision),
                                    binary64, ur),
                      value, binary64, binary32)
    [] ftype = "FDOUBLE" ->
         StoreInexact(RelativePrecision(MCALIB_BINARY64_T, precision),
                      _FAST_INEXACT(MCALIB_MODE, Convert(value, binary64, binary128),
                                    RelativePrecision(MCALIB_BINARY64_T, precision),
                                    binary128, ur),
                      value, binary128, binary64)
    [] ftype = "FQUAD" ->
         StoreInexact(precision,
                      _FAST_INEXACT(MCALIB_MODE, value, precision, binary128, ur),
                      value, binary128, binary128)

\* _interflop_user_call with id INTERFLOP_INEXACT_ID
UserCallInexact(ftype, value, precision) ==
  /\ phase = "ready" /\ pc = "idle" /\ ret = NoCall
  /\ \E ur \in DrawsIf(~_IS_IEEE_MODE(MCALIB_MODE)
                        /\ ~_IS_NOT_NORMAL_OR_SUBNORMAL(value, FtypeFormat(ftype))) :
       \E r \in {_interflop_usercall_inexact(ftype, value, precision, ur)} :
         /\ ret' = [kind |-> "INTERFLOP_INEXACT_ID", ftype |-> ftype, arg |-> value,
                    precision |-> precision, t |-> r.t, value |-> r.value,
                    draws |-> r.draws, noise_rel |-> r.noise_rel]
         /\ rng_seeded' = (rng_seeded \/ ~r.returned)
  /\ UNCHANGED <<thread_vars, config_vars, pc, call, _A, _B, _RES, trace>>

(***************************************************************************)
(* Configuration: options.h, logger.h, parse_opt, interflop_init           *)
(***************************************************************************)
\* options on the command line of the backend
MaxOpts == 2

\* the static configuration and the context as one value
St == [phase |-> phase, mode |-> MCALIB_MODE, t32 |-> MCALIB_BINARY32_T,
       t64 |-> MCALIB_BINARY64_T, ctx |-> ctx]

\* logger_error: reports and terminates the process
logger_error(st) == [st EXCEPT !.phase = "fatal"]

\* _set_precision: range check of the precision, then the store
_set_precision(st, precision, field, min, max) ==
  IF precision < min \/ precision > max THEN logger_error(st)
  ELSE [st EXCEPT ![field] = precision]

\* variant: the precision is stored into the binary64 variable
_set_mca_precision_binary32_other(st, precision) ==
  _set_precision(st, precision, "t64", MCA_PRECISION_BINARY32_MIN, MCA_PRECISION_BINARY32_MAX)

_set_mca_precision_binary32(st, precision) ==
  _set_precision(st, precision, "t32", MCA_PRECISION_BINARY32_MIN, MCA_PRECISION_BINARY32_MAX)

_set_mca_precision_binary64(st, precision) ==
  _set_precision(st, precision, "t64", MCA_PRECISION_BINARY64_MIN, MCA_PRECISION_BINARY64_MAX)

\* _set_mca_mode: mode is one of the enumerators here, so the check passes
_set_mca_mode(st, mode) ==
  IF mode \notin mcamode THEN logger_error(st) ELSE [st EXCEPT !.mode = mode]

\* Strings are sequences of characters.
DigitChars == <<"0", "1", "2", "3", "4", "5", "6", "7", "8", "9">>
UpperChars == <<"A", "B", "C", "D", "E", "F", "G", "H", "I", "J", "K", "L", "M",
                "N", "O", "P", "Q", "R", "S", "T", "U", "V", "W", "X", "Y", "Z">>
LowerChars == <<"a", "b", "c", "d", "e", "f", "g", "h", "i", "j", "k", "l", "m",
                "n", "o", "p", "q", "r", "s", "t", "u", "v", "w", "x", "y", "z">>
IsDigit(c) == \E i \in 1..Len(DigitChars) : DigitChars[i] = c
DigitVal(c) == (CHOOSE i \in 1..Len(DigitChars) : DigitChars[i] = c) - 1
tolower(c) ==
  IF \E i \in 1..Len(UpperChars) : UpperChars[i] = c
    THEN LowerChars[CHOOSE i \in 1..Len(UpperChars) : UpperChars[i] = c]
    ELSE c

\* strcasecmp(a, b) == 0
strcasecmp_eq(a, b) ==
  Len(a) = Len(b) /\ \A i \in 1..Len(a) : tolower(a[i]) = tolower(b[i])

\* the digits of arg from position i on: their count and their value
RECURSIVE DigitRun(_, _, _, _)
DigitRun(arg, i, n, v) ==
  IF i <= Len(arg) /\ IsDigit(arg[i])
    THEN DigitRun(arg, i + 1, n + 1, v * 10 + DigitVal(arg[i]))
    ELSE [n |-> n, v |-> v]

\* strtol(arg, &endptr, 10) and strtoull(arg, &endptr, 10): an optional sign
\* and the longest run of digits; 0 when there is no digit; what follows the
\* digits is left to endptr, which parse_opt never reads.  The arguments used
\* have few digits, so the value is in range and errno stays 0.
strtol(arg) ==
  LET neg == Len(arg) > 0 /\ arg[1] = "-"
      sgn == Len(arg) > 0 /\ arg[1] \in {"-", "+"}
      run == DigitRun(arg, IF sgn THEN 2 ELSE 1, 0, 0)
  IN  [val |-> IF neg THEN -run.v ELSE run.v, errno |-> 0,
       end |-> (IF sgn /\ run.n > 0 THEN 1 ELSE 0) + run.n]

\* strtof(arg, &endptr) on decimal notation without exponent: sign, digits,
\* an optional point and digits, rounded to binary32; 0 when there is no digit
strtof(arg) ==
  LET neg  == Len(arg) > 0 /\ arg[1] = "-"
      sgn  == Len(arg) > 0 /\ arg[1] \in {"-", "+"}
      i0   == IF sgn THEN 2 ELSE 1
      int  == DigitRun(arg, i0, 0, 0)
      pt   == i0 + int.n <= Len(arg) /\ arg[i0 + int.n] = "."
      frac == IF pt THEN DigitRun(arg, i0 + int.n + 1, 0, int.v) ELSE [n |-> 0, v |-> int.v]
      any  == int.n + frac.n > 0
  IN  IF ~any THEN FltZero(0, binary32)
      ELSE FDiv(FltOf(IF neg THEN 1 ELSE 0, frac.v, 0, binary32),
                FltOf(0, 10 ^ frac.n, 0, binary32), binary32)

MCA_MODE_STR == [mcamode_ieee |-> <<"i", "e", "e", "e">>, mcamode_mca |-> <<"m", "c", "a">>,
                 mcamode_pb |-> <<"p", "b">>, mcamode_rr |-> <<"r", "r">>]
MCA_ERR_MODE_STR == [mca_err_mode_rel |-> <<"r", "e", "l">>,
                     mca_err_mode_abs |-> <<"a", "b", "s">>,
                     mca_err_mode_all |-> <<"a", "l", "l">>]

\* parse_opt(key, arg, state) on the configuration st
parse_opt(key, arg, st) ==
  CASE key = "KEY_PREC_B32" ->
         LET r == strtol(arg)
         IN  IF r.errno # 0 \/ r.val <= 0 THEN logger_error(st)
             ELSE _set_mca_precision_binary32(st, r.val)
    [] key = "KEY_PREC_B64" ->
         LET r == strtol(arg)
         IN  IF r.errno # 0 \/ r.val <= 0 THEN logger_error(st)
             ELSE _set_mca_precision_binary64(st, r.val)
    [] key = "KEY_MODE" ->
         IF strcasecmp_eq(MCA_MODE_STR.mcamode_ieee, arg) THEN _set_mca_mode(st, "mcamode_ieee")
         ELSE IF strcasecmp_eq(MCA_MODE_STR.mcamode_mca, arg) THEN _set_mca_mode(st, "mcamode_mca")
         ELSE IF strcasecmp_eq(MCA_MODE_STR.mcamode_pb, arg) THEN _set_mca_mode(st, "mcamode_pb")
         ELSE IF strcasecmp_eq(MCA_MODE_STR.mcamode_rr, arg) THEN _set_mca_mode(st, "mcamode_rr")
         ELSE logger_error(st)
    [] key = "KEY_ERR_MODE" ->
         IF strcasecmp_eq(MCA_ERR_MODE_STR.mca_err_mode_rel, arg)
           THEN [st EXCEPT !.ctx.relErr = TRUE, !.ctx.absErr = FALSE]
         ELSE IF strcasecmp_eq(MCA_ERR_MODE_STR.mca_err_mode_abs, arg)
           THEN [st EXCEPT !.ctx.relErr = FALSE, !.ctx.absErr = TRUE]
         ELSE IF strcasecmp_eq(MCA_ERR_MODE_STR.mca_err_mode_all, arg)
           THEN [st EXCEPT !.ctx.relErr = TRUE, !.ctx.absErr = TRUE]
         ELSE logger_error(st)
    [] key = "KEY_ERR_EXP" ->
         LET r  == strtol(arg)
             s1 == [st EXCEPT !.ctx.absErr_exp = r.val]
         IN  IF r.errno # 0 THEN logger_error(s1) ELSE s1
    [] key = "KEY_SEED" ->
         LET r  == strtol(arg)
             s1 == [st EXCEPT !.ctx.choose_seed = TRUE, !.ctx.seed = r.val]
         IN  IF r.errno # 0 THEN logger_error(s1) ELSE s1
    [] key = "KEY_DAZ" -> [st EXCEPT !.ctx.daz = TRUE]
    [] key = "KEY_FTZ" -> [st EXCEPT !.ctx.ftz = TRUE]
    [] key = "KEY_SPARSITY" ->
         LET s1 == [st EXCEPT !.ctx.sparsity = strtof(arg)]
         IN  IF FLessEq(s1.ctx.sparsity, FltZero(0, binary32), binary32)
               THEN logger_error(s1) ELSE s1
    [] OTHER -> st

\* argp_parse hands one option of the command line to parse_opt
ParseOpt(key, arg) ==
  /\ phase = "parsing" /\ nopts < MaxOpts
  /\ LET s == parse_opt(key, arg, St)
     IN  /\ phase' = s.phase
         /\ MCALIB_MODE' = s.mode
         /\ MCALIB_BINARY32_T' = s.t32
         /\ MCALIB_BINARY64_T' = s.t64
         /\ ctx' = s.ctx
  /\ nopts' = nopts + 1
  /\ UNCHANGED <<thread_vars, rng_seeded, pc, call, _A, _B, _RES, trace, ret>>

\* lines 632-654: argp_parse has returned; the interface is built, the RNG
\* state initialised and the backend returned
InterflopInitReturn ==
  /\ phase = "parsing"
  /\ phase' = "ready"
  /\ rng_seeded' = TRUE
  /\ UNCHANGED <<nopts, MCALIB_MODE, MCALIB_BINARY32_T, MCALIB_BINARY64_T, ctx,
                 pc, call, _A, _B, _RES, trace, ret, thread_vars>>

interflop_call_id ==
  {"INTERFLOP_SET_PRECISION_BINARY32", "INTERFLOP_SET_PRECISION_BINARY64", "INTERFLOP_CUSTOM_ID"}

\* _interflop_user_call for the ids other than INTERFLOP_INEXACT_ID; an
\* unknown id is only warned about
_interflop_user_call(st, id, precision) ==
  CASE id = "INTERFLOP_SET_PRECISION_BINARY32" -> _set_mca_precision_binary32(st, precision)
    [] id = "INTERFLOP_SET_PRECISION_BINARY64" -> _set_mca_precision_binary64(st, precision)
    [] OTHER -> st

UserCall(id, precision) ==
  /\ phase = "ready" /\ pc = "idle" /\ ret = NoCall
  /\ LET s == _interflop_user_call(St, id, precision)
     IN  /\ phase' = s.phase
         /\ MCALIB_MODE' = s.mode
         /\ MCALIB_BINARY32_T' = s.t32
         /\ MCALIB_BINARY64_T' = s.t64
         /\ ctx' = s.ctx
  /\ ret' = [kind |-> id, precision |-> precision]
  /\ UNCHANGED <<thread_vars, nopts, rng_seeded, pc, call, _A, _B, _RES, trace>>

(***************************************************************************)
(* Inputs of the arithmetic entry points                                   *)
(***************************************************************************)
FltSub(fmt)     == [sign |-> 1, exponent |-> 0, mantissa |-> <<1>>]
FltMinNorm(fmt) == [sign |-> 0, exponent |-> 1, mantissa |-> <<>>]
FltOneUlp(fmt)  == [sign |-> 0, exponent |-> Bias(fmt), mantissa |-> <<1>>]
FltThree(fmt)   == [sign |-> 0, exponent |-> Bias(fmt) + 1,
                    mantissa |-> BShl(<<1>>, fmt.mbits - 1)]
FltMax(fmt)     == [sign |-> 0, exponent |-> ExpFieldMax(fmt) - 1,
                    mantissa |-> BSub(BShl(<<1>>, fmt.mbits), <<1>>)]

\* first operands: +0, a negative subnormal, the least normal, 1 + ulp, 3, the
\* greatest finite value, +infinity and a NaN
InputsA(fmt) ==
  { FltZero(0, fmt), FltSub(fmt), FltMinNorm(fmt), FltOneUlp(fmt), FltThree(fmt),
    FltMax(fmt), FltInf(0, fmt), FltNaN(fmt) }

\* second operands: +0, a negative subnormal, 1 + ulp and +infinity
InputsB(fmt) == { FltZero(0, fmt), FltSub(fmt), FltOneUlp(fmt), FltInf(0, fmt) }

\* the arguments of the INEXACT user calls
\* +0, a negative subnormal, 1 + ulp, 3, +infinity and a NaN
UserValues(fmt) ==
  { FltZero(0, fmt), FltSub(fmt), FltOneUlp(fmt), FltThree(fmt), FltInf(0, fmt), FltNaN(fmt) }
UserPrecisions == {-10, 0, 12}

(***************************************************************************)
(* Specification of the arithmetic entry points: the backend has been      *)
(* initialised with one of the configurations interflop_init can produce.  *)
(***************************************************************************)
ErrorModes == {<<TRUE, FALSE>>, <<FALSE, TRUE>>, <<TRUE, TRUE>>}

Config(m, t32, t64, c) == [mode |-> m, t32 |-> t32, t64 |-> t64, ctx |-> c]

DefaultConfig(m, c) ==
  Config(m, MCA_PRECISION_BINARY32_DEFAULT, MCA_PRECISION_BINARY64_DEFAULT, c)

Half32 == FltOf(0, 1, -1, binary32)

Configs ==
  \* every mode, without and with daz and ftz
  { DefaultConfig(m, [init_context EXCEPT !.daz = d, !.ftz = d]) :
      m \in mcamode, d \in BOOLEAN }
  \* daz alone and ftz alone
  \cup { DefaultConfig(m, [init_context EXCEPT !.daz = d, !.ftz = ~d]) :
      m \in {"mcamode_ieee", "mcamode_rr"}, d \in BOOLEAN }
  \* the error modes and a sparsity below 1
  \cup { DefaultConfig(m, [init_context EXCEPT !.relErr = e[1], !.absErr = e[2], !.sparsity = sp]) :
      m \in {"mcamode_ieee", "mcamode_rr"}, e \in ErrorModes,
      sp \in {Half32, init_context.sparsity} }
  \cup { DefaultConfig("mcamode_pb", [init_context EXCEPT !.relErr = FALSE, !.absErr = TRUE]),
         DefaultConfig("mcamode_pb", [init_context EXCEPT !.sparsity = Half32]) }
  \* virtual precisions at and between the ends of their ranges
  \cup { Config("mcamode_rr", t[1], t[2], init_context) :
      t \in { <<MCA_PRECISION_BINARY32_MIN, MCA_PRECISION_BINARY64_MIN>>, <<12, 30>>, <<30, 60>>,
               <<MCA_PRECISION_BINARY32_MAX, MCA_PRECISION_BINARY64_MAX>> } }
  \* absolute errors at other exponents
  \cup { DefaultConfig("mcamode_rr", [init_context EXCEPT !.relErr = FALSE, !.absErr = TRUE,
                                                          !.absErr_exp = x]) :
      x \in {-1100, 1026} }

Init ==
  /\ phase = "ready" /\ nopts = 0
  /\ \E cfg \in Configs :
       /\ MCALIB_MODE = cfg.mode
       /\ MCALIB_BINARY32_T = cfg.t32
       /\ MCALIB_BINARY64_T = cfg.t64
       /\ ctx = cfg.ctx
  /\ rng_seeded = TRUE
  /\ pc = "idle" /\ call = NoCall /\ _A = NoLocal /\ _B = NoLocal /\ _RES = NoLocal
  /\ trace = <<>> /\ ret = NoCall
  /\ ThreadsIdle

Next ==
  \/ \E ty \in {"float", "double"} :
       \E a \in InputsA(OperandType(ty)), b \in InputsB(OperandType(ty)) :
         \E op \in mca_operations : BinaryOpCall(ty, a, b, op)
  \/ InexactA
  \/ InexactB
  \/ Perform
  \/ InexactRes
  \/ Return
  \/ HostContinues
  \/ \E ftype \in FTYPES :
       \E value \in UserValues(FtypeFormat(ftype)), precision \in UserPrecisions :
         UserCallInexact(ftype, value, precision)

Spec == Init /\ [][Next]_vars

(***************************************************************************)
(* Specification of the life of the backend: interflop_init with the       *)
(* options of the command line, then arithmetic and user calls.            *)
(***************************************************************************)
\* options with well-formed, ill-formed, in-range and out-of-range values
OptionArgs ==
  { <<"KEY_PREC_B32", <<"1", "2", "a", "b", "c">>>>,
    <<"KEY_PREC_B32", <<"0">>>>,
    <<"KEY_PREC_B32", <<"5", "4">>>>,
    <<"KEY_PREC_B64", <<"1", "1", "2">>>>,
    <<"KEY_PREC_B64", <<"1", "1", "3">>>>,
    <<"KEY_PREC_B64", <<"a", "b", "c">>>>,
    <<"KEY_MODE", <<"R", "R">>>>,
    <<"KEY_MODE", <<"f", "o", "o">>>>,
    <<"KEY_ERR_MODE", <<"a", "b", "s">>>>,
    <<"KEY_ERR_MODE", <<"b", "a", "r">>>>,
    <<"KEY_ERR_EXP", <<"-", "1", "1", "0", "0">>>>,
    <<"KEY_ERR_EXP", <<"a", "b", "c">>>>,
    <<"KEY_SEED", <<"a", "b", "c">>>>,
    <<"KEY_DAZ", <<>>>>,
    <<"KEY_FTZ", <<>>>>,
    <<"KEY_SPARSITY", <<"0", ".", "5">>>>,
    <<"KEY_SPARSITY", <<"2">>>>,
    <<"KEY_SPARSITY", <<"0">>>>,
    <<"KEY_SPARSITY", <<"-", "1">>>>,
    <<"KEY_SPARSITY", <<"a", "b", "c">>>> }

\* arguments of the SET_PRECISION user calls
PrecisionArgs == {0, 1, 54, 113}

\* lines 130-145 and 614-630: the static initialisers, then the defaults set
\* again, the context allocated and initialised
InitParsing ==
  LET s0 == [phase |-> "parsing", mode |-> MCA_MODE_DEFAULT,
             t32 |-> MCA_PRECISION_BINARY32_DEFAULT, t64 |-> MCA_PRECISION_BINARY64_DEFAULT,
             ctx |-> init_context]
      s  == _set_mca_mode(
              _set_mca_precision_binary64(
                _set_mca_precision_binary32(s0, MCA_PRECISION_BINARY32_DEFAULT),
                MCA_PRECISION_BINARY64_DEFAULT),
              MCA_MODE_DEFAULT)
  IN  /\ phase = s.phase /\ nopts = 0
      /\ MCALIB_MODE = s.mode
      /\ MCALIB_BINARY32_T = s.t32
      /\ MCALIB_BINARY64_T = s.t64
      /\ ctx = s.ctx
      /\ rng_seeded = FALSE
      /\ pc = "idle" /\ call = NoCall /\ _A = NoLocal /\ _B = NoLocal /\ _RES = NoLocal
      /\ trace = <<>> /\ ret = NoCall
      /\ ThreadsIdle

NextInit ==
  \/ \E o \in OptionArgs : ParseOpt(o[1], o[2])
  \/ InterflopInitReturn
  \/ \E id \in interflop_call_id, precision \in PrecisionArgs : UserCall(id, precision)
  \/ \E ty \in {"float", "double"} :
       BinaryOpCall(ty, FltZero(0, OperandType(ty)), FltOneUlp(OperandType(ty)), "mca_mul")
  \/ InexactA
  \/ InexactB
  \/ Perform
  \/ InexactRes
  \/ Return
  \/ HostContinues

SpecInit == InitParsing /\ [][NextInit]_vars

(***************************************************************************)
(* Host threads: the accesses of the entry points to rng_state and         *)
(* global_tid.  The values computed are left out; what an _INEXACT or a    *)
(* _FAST_INEXACT does to the RNG is the sequence of its                    *)
(* _init_rng_state_struct call and draws.                                  *)
(***************************************************************************)
\* variant: rng_state without __thread, one instance for the process
RngInstance_static(t) == 1

\* line 195: the instance of rng_state the name denotes on thread t
RngInstance(t) == t

\* _init_rng_state_struct: fills in a state that is not valid yet
_init_rng_state_struct(rs, choose_seed, seed, random_state_valid) ==
  IF rs.random_state_valid THEN rs
  ELSE [rs EXCEPT !.choose_seed = choose_seed, !.seed = seed,
                  !.random_state_valid = random_state_valid]

\* what one _INEXACT does to the RNG (lines 271-288): "exact" when the guard
\* _MUST_NOT_BE_NOISED holds, "skipped" when _mca_skip_eval returns true
InexactOutcomes(c) ==
  {"exact", "noised"} \cup (IF SkipDraws(c.sparsity) = 1 THEN {"skipped"} ELSE {})

InexactRngOps(c, outcome) ==
  <<"init">>
  \o (IF outcome # "exact" /\ SkipDraws(c.sparsity) = 1 THEN <<"draw">> ELSE <<>>)
  \o (IF outcome = "noised" /\ c.relErr THEN <<"draw">> ELSE <<>>)
  \o (IF outcome = "noised" /\ c.absErr THEN <<"draw">> ELSE <<>>)

\* _FAST_INEXACT (lines 254-262): nothing when it returns at once
FastInexactRngOps(mode, normal) ==
  IF _IS_IEEE_MODE(mode) \/ ~normal THEN <<>> ELSE <<"init", "draw">>

\* thread t, inside an arithmetic entry point, reaches one of the _INEXACT of
\* _MCA_BINARY_OP (lines 347-354); the mode has to ask for one
ThreadInexact(t, outcome) ==
  /\ phase = "ready" /\ thread[t] = <<>>
  /\ InputNoiseMode(MCALIB_MODE) \/ OutputNoiseMode(MCALIB_MODE)
  /\ thread' = [thread EXCEPT ![t] = InexactRngOps(ctx, outcome)]
  /\ access' = NoAccess
  /\ UNCHANGED <<config_vars, rng_seeded, pc, call, _A, _B, _RES, trace, ret,
                 rng_state, global_tid>>

\* thread t makes the INEXACT user call on a value that is normal or
\* subnormal, and its _FAST_INEXACT does not return at once
ThreadUserInexact(t, normal) ==
  /\ phase = "ready" /\ thread[t] = <<>>
  /\ FastInexactRngOps(MCALIB_MODE, normal) # <<>>
  /\ thread' = [thread EXCEPT ![t] = FastInexactRngOps(MCALIB_MODE, normal)]
  /\ access' = NoAccess
  /\ UNCHANGED <<config_vars, rng_seeded, pc, call, _A, _B, _RES, trace, ret,
                 rng_state, global_tid>>

\* _init_rng_state_struct(&rng_state, ctx->choose_seed, ctx->seed, false)
ThreadInitRng(t) ==
  /\ thread[t] # <<>> /\ Head(thread[t]) = "init"
  /\ rng_state' = [rng_state EXCEPT ![RngInstance(t)] =
                     _init_rng_state_struct(@, ctx.choose_seed, ctx.seed, FALSE)]
  /\ access' = [thread |-> t, op |-> "init", instance |-> RngInstance(t), global_tid |-> FALSE]
  /\ thread' = [thread EXCEPT ![t] = Tail(@)]
  /\ UNCHANGED <<config_vars, rng_seeded, pc, call, _A, _B, _RES, trace, ret, global_tid>>

\* get_rand_double01(&rng_state, &global_tid) on a state that is not valid:
\* the state is seeded, with a new thread identifier taken from global_tid in
\* one indivisible step when the seed was chosen
ThreadSeed(t) ==
  /\ thread[t] # <<>> /\ Head(thread[t]) = "draw"
  /\ ~rng_state[RngInstance(t)].random_state_valid
  /\ IF rng_state[RngInstance(t)].choose_seed
       THEN /\ global_tid' = global_tid + 1
            /\ rng_state' = [rng_state EXCEPT ![RngInstance(t)] =
                               [@ EXCEPT !.random_state_valid = TRUE, !.seeded_by = t,
                                         !.tid = global_tid + 1]]
       ELSE /\ global_tid' = global_tid
            /\ rng_state' = [rng_state EXCEPT ![RngInstance(t)] =
                               [@ EXCEPT !.random_state_valid = TRUE, !.seeded_by = t]]
  /\ access' = [thread |-> t, op |-> "seed", instance |-> RngInstance(t),
                global_tid |-> rng_state[RngInstance(t)].choose_seed]
  /\ UNCHANGED <<config_vars, rng_seeded, pc, call, _A, _B, _RES, trace, ret, thread>>

\* get_rand_double01 on a valid state: the generator advances
ThreadDraw(t) ==
  /\ thread[t] # <<>> /\ Head(thread[t]) = "draw"
  /\ rng_state[RngInstance(t)].random_state_valid
  /\ rng_state' = [rng_state EXCEPT ![RngInstance(t)].drawn = TRUE]
  /\ access' = [thread |-> t, op |-> "draw", instance |-> RngInstance(t), global_tid |-> FALSE]
  /\ thread' = [thread EXCEPT ![t] = Tail(@)]
  /\ UNCHANGED <<config_vars, rng_seeded, pc, call, _A, _B, _RES, trace, ret, global_tid>>

\* the configurations of the threads: every mode, a seed chosen or not, the
\* default error mode and both, sparsity 1 and 1/2
ThreadConfigs ==
  { DefaultConfig(m, [init_context EXCEPT !.choose_seed = cs, !.seed = (IF cs THEN 1 ELSE 0),
                                          !.absErr = ab, !.sparsity = sp]) :
      m \in mcamode, cs \in BOOLEAN, ab \in BOOLEAN, sp \in {Half32, init_context.sparsity} }

\* interflop_init has returned on thread 1 (line 652 has initialised its rng_state)
InitThreads ==
  /\ phase = "ready" /\ nopts = 0
  /\ \E cfg \in ThreadConfigs :
       /\ MCALIB_MODE = cfg.mode
       /\ MCALIB_BINARY32_T = cfg.t32
       /\ MCALIB_BINARY64_T = cfg.t64
       /\ ctx = cfg.ctx
  /\ rng_seeded = TRUE
  /\ pc = "idle" /\ call = NoCall /\ _A = NoLocal /\ _B = NoLocal /\ _RES = NoLocal
  /\ trace = <<>> /\ ret = NoCall
  /\ rng_state = [t \in Threads |->
                    IF t = RngInstance(1)
                      THEN _init_rng_state_struct(NoRngState, ctx.choose_seed, ctx.seed, FALSE)
                      ELSE NoRngState]
  /\ global_tid = 0
  /\ thread = [t \in Threads |-> <<>>]
  /\ access = NoAccess

NextThreads ==
  \E t \in Threads :
    \/ \E outcome \in InexactOutcomes(ctx) : ThreadInexact(t, outcome)
    \/ \E normal \in BOOLEAN : ThreadUserInexact(t, normal)
    \/ ThreadInitRng(t)
    \/ ThreadSeed(t)
    \/ ThreadDraw(t)

SpecThreads == InitThreads /\ [][NextThreads]_vars

(***************************************************************************)
(* Reference semantics used by the properties                              *)
(***************************************************************************)
\* the native operation of the host: one rounding, in the operand type
NativeOp(ty, a, b, op) == PERFORM_BIN_OP(op, a, b, OperandType(ty))

IsSubnormal(x, fmt) == x.exponent = 0 /\ x.mantissa # <<>>
IsFinite(x, fmt) == x.exponent # ExpFieldMax(fmt)
SignedZero(x) == [sign |-> x.sign, exponent |-> 0, mantissa |-> <<>>]
Flushed(on, x, fmt) == IF on /\ IsSubnormal(x, fmt) THEN SignedZero(x) ELSE x

\* exact sum, product and equality of exact values
ExactSum(rx, ry) ==
  IF rx.mag = <<>> THEN ry
  ELSE IF ry.mag = <<>> THEN rx
  ELSE
    LET e  == IMin(rx.exp, ry.exp)
        mx == BShl(rx.mag, rx.exp - e)
        my == BShl(ry.mag, ry.exp - e)
        c  == BCmp(mx, my)
    IN  IF rx.sign = ry.sign THEN [sign |-> rx.sign, mag |-> BAdd(mx, my), exp |-> e]
        ELSE IF c >= 0 THEN [sign |-> rx.sign, mag |-> BSub(mx, my), exp |-> e]
        ELSE [sign |-> ry.sign, mag |-> BSub(my, mx), exp |-> e]
ExactNeg(r) == [r EXCEPT !.sign = 1 - r.sign]
ExactProd(rx, ry) ==
  [sign |-> (rx.sign + ry.sign) % 2, mag |-> BMul(rx.mag, ry.mag), exp |-> rx.exp + ry.exp]
ExactEq(rx, ry) ==
  IF rx.mag = <<>> \/ ry.mag = <<>> THEN rx.mag = ry.mag
  ELSE /\ rx.sign = ry.sign
       /\ RealExp(rx) = RealExp(ry)
       /\ LET e == IMin(rx.exp, ry.exp)
          IN  BShl(rx.mag, rx.exp - e) = BShl(ry.mag, ry.exp - e)
\* x + y = r exactly, for values x, y, r of format W: terms further apart
\* than the width of W have no sum in W
SumIsExact(x, y, r, W) ==
  LET rx == ToReal(x, W)
      ry == ToReal(y, W)
  IN  IF rx.mag # <<>> /\ ry.mag # <<>>
           /\ (RealExp(rx) - RealExp(ry) > W.mbits + 2 \/ RealExp(ry) - RealExp(rx) > W.mbits + 2)
        THEN FALSE
        ELSE ExactEq(ExactSum(rx, ry), ToReal(r, W))
\* |rx| < 2^k
ExactMagBelowPow2(rx, k) == rx.mag = <<>> \/ RealExp(rx) < k

\* number of significant bits of an exact value: from its leading to its last set bit
SignificantBits(r) == IF r.mag = <<>> THEN 0 ELSE BBitLen(r.mag) - BTrailingZeros(r.mag)

\* the exact a op b is the finite value r of format W
OpIsExact(op, a, b, r, W) ==
  /\ IsFinite(a, W) /\ IsFinite(b, W) /\ IsFinite(r, W)
  /\ CASE op = "mca_add" -> SumIsExact(a, b, r, W)
       [] op = "mca_sub" -> SumIsExact(a, FNeg(b), r, W)
       [] op = "mca_mul" -> ExactEq(ExactProd(ToReal(a, W), ToReal(b, W)), ToReal(r, W))
       [] op = "mca_div" -> /\ b.mantissa # <<>> \/ b.exponent # 0
                            /\ ExactEq(ExactProd(ToReal(r, W), ToReal(b, W)), ToReal(a, W))

StepNames(tr) == [i \in 1..Len(tr) |-> tr[i].step]
NoDraw(tr) == \A i \in 1..Len(tr) : tr[i].draws = 0
IsPrefix(s, t) == Len(s) <= Len(t) /\ s = SubSeq(t, 1, Len(s))
Returned == ret # NoCall /\ ret.kind = "binary_op"

(***************************************************************************)
(* C1                                                                      *)
(***************************************************************************)
ExpectedSteps(mode, daz, ftz) ==
  (IF daz THEN <<"DAZ">> ELSE <<>>)
  \o (IF mode \in {"mcamode_pb", "mcamode_mca"} THEN <<"INEXACT_A", "INEXACT_B">> ELSE <<>>)
  \o <<"OP">>
  \o (IF mode \in {"mcamode_rr", "mcamode_mca"} THEN <<"INEXACT_RES">> ELSE <<>>)
  \o (IF ftz THEN <<"FTZ">> ELSE <<>>)

\* C1: a binary operation performs, in this order, DAZ on the inputs if daz,
\* inexact on both inputs exactly in modes PB and MCA, the operation, inexact
\* on the result exactly in modes RR and MCA, FTZ on the result if ftz; in
\* mode IEEE inexact is called on nothing.
C1_DriverOrder ==
  /\ Returned => StepNames(ret.trace) = ExpectedSteps(MCALIB_MODE, ctx.daz, ctx.ftz)
  /\ pc # "idle" => IsPrefix(StepNames(trace), ExpectedSteps(MCALIB_MODE, ctx.daz, ctx.ftz))

C1_Witness ==
  /\ Returned /\ MCALIB_MODE = "mcamode_mca" /\ ctx.daz /\ ctx.ftz
  /\ StepNames(ret.trace) = <<"DAZ", "INEXACT_A", "INEXACT_B", "OP", "INEXACT_RES", "FTZ">>
  /\ ret.trace[2].draws = 1 /\ ret.trace[5].draws = 1

(***************************************************************************)
(* C2                                                                      *)
(***************************************************************************)
\* C2 as stated: in mode IEEE, for finite a and b, the value returned is the
\* native IEEE result of a op b and no draw is made, for every setting of
\* daz, ftz, sparsity and error mode.
C2_IeeeNativeAnyFlush ==
  (Returned /\ MCALIB_MODE = "mcamode_ieee"
     /\ IsFinite(ret.a, OperandType(ret.ty)) /\ IsFinite(ret.b, OperandType(ret.ty)))
  => /\ ret.value = NativeOp(ret.ty, ret.a, ret.b, ret.op)
     /\ NoDraw(ret.trace)

\* C2 amended: in mode IEEE, for finite a and b, the value returned is the
\* native IEEE result of a op b, computed on the inputs with subnormals
\* replaced by zero if daz and itself replaced by zero if subnormal and ftz; no
\* draw is made; this for every setting of daz, ftz, sparsity and error mode.
\* With daz and ftz off it is the native result of a op b.
C2_IeeeNative ==
  (Returned /\ MCALIB_MODE = "mcamode_ieee"
     /\ IsFinite(ret.a, OperandType(ret.ty)) /\ IsFinite(ret.b, OperandType(ret.ty)))
  => LET fmt == OperandType(ret.ty)
         a0  == Flushed(ctx.daz, ret.a, fmt)
         b0  == Flushed(ctx.daz, ret.b, fmt)
     IN  /\ ret.value = Flushed(ctx.ftz, NativeOp(ret.ty, a0, b0, ret.op), fmt)
         /\ NoDraw(ret.trace)

C2_Witness ==
  /\ Returned /\ MCALIB_MODE = "mcamode_ieee" /\ ~ctx.daz /\ ~ctx.ftz
  /\ ctx.absErr /\ ctx.relErr /\ SkipDraws(ctx.sparsity) = 1
  /\ ret.op = "mca_div" /\ ret.a = FltThree(binary32) /\ ret.b = FltOneUlp(binary32)
  /\ ret.value = NativeOp(ret.ty, ret.a, ret.b, ret.op)

(***************************************************************************)
(* C3                                                                      *)
(***************************************************************************)
Untouched(tr, W) ==
  \A i \in 1..Len(tr) :
    (tr[i].step \in {"INEXACT_A", "INEXACT_B", "INEXACT_RES"}
       /\ FPCLASSIFY(tr[i].before[1], W) \in {"FP_ZERO", "FP_INFINITE", "FP_NAN"})
    => /\ tr[i].after = tr[i].before
       /\ tr[i].draws = 0
       /\ tr[i].noise_rel = <<>> /\ tr[i].noise_abs = <<>>

\* C3: in every mode, error mode and sparsity, a call of inexact on a zero,
\* an infinity or a NaN leaves the value identical and makes no draw, so a
\* driver input or result of such a class is never perturbed: a NaN operand
\* gives a NaN, and INF + b for a finite b gives INF.
C3_SpecialValuesUntouched ==
  /\ pc # "idle" => Untouched(trace, WorkingType(call.ty))
  /\ Returned =>
       LET fmt == OperandType(ret.ty)
       IN  /\ Untouched(ret.trace, WorkingType(ret.ty))
           /\ (FPCLASSIFY(ret.a, fmt) = "FP_NAN" \/ FPCLASSIFY(ret.b, fmt) = "FP_NAN")
                => FPCLASSIFY(ret.value, fmt) = "FP_NAN"
           /\ (FPCLASSIFY(ret.a, fmt) = "FP_INFINITE" /\ IsFinite(ret.b, fmt)
                 /\ ret.op = "mca_add")
                => ret.value = ret.a

C3_Witness ==
  /\ Returned /\ MCALIB_MODE = "mcamode_mca" /\ ret.op = "mca_add"
  /\ FPCLASSIFY(ret.a, OperandType(ret.ty)) = "FP_INFINITE"
  /\ FPCLASSIFY(ret.b, OperandType(ret.ty)) = "FP_ZERO"
  /\ Len(ret.trace) = 4 /\ NoDraw(ret.trace)
  /\ ret.value = ret.a

(***************************************************************************)
(* C4                                                                      *)
(***************************************************************************)
\* the exact a op b, on the inputs the operation consumes, is a finite value
\* with at most t significant bits
ExactResultRepresentable(ty, a, b, op, t) ==
  LET W  == WorkingType(ty)
      a0 == Convert(a, OperandType(ty), W)
      b0 == Convert(b, OperandType(ty), W)
      r  == PERFORM_BIN_OP(op, a0, b0, W)
  IN  /\ OpIsExact(op, a0, b0, r, W)
      /\ SignificantBits(ToReal(r, W)) <= t

\* C4: in mode RR, when the exact a op b is representable in t bits, the
\* value returned is the IEEE result (with daz and ftz applied as configured)
\* for every error mode and sparsity, and the call makes no draw at all.
C4_RRRepresentableExact ==
  (Returned /\ MCALIB_MODE = "mcamode_rr")
  => LET fmt == OperandType(ret.ty)
         a0  == Flushed(ctx.daz, ret.a, fmt)
         b0  == Flushed(ctx.daz, ret.b, fmt)
         t   == IF ret.ty = "float" THEN MCALIB_BINARY32_T ELSE MCALIB_BINARY64_T
     IN  ExactResultRepresentable(ret.ty, a0, b0, ret.op, t)
         => /\ ret.value = Flushed(ctx.ftz, NativeOp(ret.ty, a0, b0, ret.op), fmt)
            /\ NoDraw(ret.trace)

C4_Witness ==
  /\ Returned /\ MCALIB_MODE = "mcamode_rr" /\ ~ctx.daz /\ ~ctx.ftz
  /\ SkipDraws(ctx.sparsity) = 1 /\ ctx.relErr /\ ctx.absErr
  /\ ret.ty = "float" /\ ret.op = "mca_mul"
  /\ ret.a = FltMinNorm(binary32) /\ ret.b = FltOneUlp(binary32)
  /\ ExactResultRepresentable(ret.ty, ret.a, ret.b, ret.op, MCALIB_BINARY32_T)
  /\ FPCLASSIFY(ret.res, binary64) = "FP_NORMAL"
  /\ ret.value = NativeOp(ret.ty, ret.a, ret.b, ret.op)

(***************************************************************************)
(* C5                                                                      *)
(***************************************************************************)
\* C5: with daz on, a subnormal a or b is replaced by a zero of the same sign
\* before any noise and before the operation; with ftz on, a result that is
\* subnormal in the operand type is returned as a zero of the same sign; with
\* the flag off, subnormal inputs take part and subnormal results are
\* returned unchanged.
C5_DazFtz ==
  /\ pc = "inexact_A" =>
       LET fmt == OperandType(call.ty)
           W   == WorkingType(call.ty)
       IN  /\ _A = Convert(Flushed(ctx.daz, call.a, fmt), fmt, W)
           /\ _B = Convert(Flushed(ctx.daz, call.b, fmt), fmt, W)
  /\ (pc \in {"inexact_B", "perform"} /\ ctx.daz) =>
       /\ IsSubnormal(call.a, OperandType(call.ty)) => _A = SignedZero(call.a)
       /\ (pc = "perform" /\ IsSubnormal(call.b, OperandType(call.ty)))
            => _B = SignedZero(call.b)
  /\ Returned =>
       LET fmt == OperandType(ret.ty)
           r   == Convert(ret.res, WorkingType(ret.ty), fmt)
       IN  ret.value = IF ctx.ftz /\ IsSubnormal(r, fmt) THEN SignedZero(r) ELSE r

\* daz and ftz on: a subnormal input has been consumed as a zero and the
\* subnormal result of another call is returned as a zero
C5_Witness ==
  /\ Returned /\ ctx.daz /\ ctx.ftz
  /\ IsSubnormal(Convert(ret.res, WorkingType(ret.ty), OperandType(ret.ty)), OperandType(ret.ty))
  /\ ret.value = FltZero(0, OperandType(ret.ty))

C5_WitnessDaz ==
  /\ pc = "perform" /\ ctx.daz /\ MCALIB_MODE = "mcamode_mca"
  /\ IsSubnormal(call.a, OperandType(call.ty)) /\ _A = FltZero(1, WorkingType(call.ty))
  /\ FPCLASSIFY(_B, WorkingType(call.ty)) = "FP_NORMAL"

C5_WitnessOff ==
  /\ Returned /\ ~ctx.daz /\ ~ctx.ftz
  /\ IsSubnormal(ret.a, OperandType(ret.ty)) /\ IsSubnormal(ret.value, OperandType(ret.ty))

(***************************************************************************)
(* C6                                                                      *)
(***************************************************************************)
\* |x - y| < 2^k for exact values x and y
DiffBelowPow2(rx, ry, k) == ExactMagBelowPow2(ExactSum(rx, ExactNeg(ry)), k)

\* C6: with mode RR, relative error only and sparsity 1, for every virtual
\* precision t and every normal result r = a op b that is not representable
\* in t bits, the value r' returned satisfies |r' - r| < 2^(GET_EXP(r) - (t - 1))
\* for every draw.
C6_RRPerturbationBound ==
  (Returned /\ MCALIB_MODE = "mcamode_rr" /\ ctx.relErr /\ ~ctx.absErr
     /\ SkipDraws(ctx.sparsity) = 0 /\ ~ctx.daz /\ ~ctx.ftz)
  => LET fmt == OperandType(ret.ty)
         W   == WorkingType(ret.ty)
         t   == IF ret.ty = "float" THEN MCALIB_BINARY32_T ELSE MCALIB_BINARY64_T
         r   == PERFORM_BIN_OP(ret.op, Convert(ret.a, fmt, W), Convert(ret.b, fmt, W), W)
     IN  (FPCLASSIFY(r, W) = "FP_NORMAL" /\ FPCLASSIFY(Convert(r, W, fmt), fmt) = "FP_NORMAL"
            /\ SignificantBits(ToReal(r, W)) > t)
         => /\ IsFinite(ret.value, fmt)
            /\ DiffBelowPow2(ToReal(ret.value, fmt), ToReal(r, W), GET_EXP_FLT(r, W) - (t - 1))

(***************************************************************************)
(* C7                                                                      *)
(***************************************************************************)
AbsNoiseBelow(tr, W, k) ==
  \A i \in 1..Len(tr) :
    \A j \in 1..Len(tr[i].noise_abs) :
      LET n == tr[i].noise_abs[j]
      IN  /\ IsFinite(n, W)
          /\ ExactMagBelowPow2(ToReal(n, W), k)

\* C7: with absolute error only, for every accepted absErr_exp and both
\* working types, each absolute-noise value added by inexact has a magnitude
\* below 2^(absErr_exp - 1).
C7_AbsNoiseBound ==
  (ctx.absErr /\ ~ctx.relErr)
  => /\ pc # "idle" => AbsNoiseBelow(trace, WorkingType(call.ty), ctx.absErr_exp - 1)
     /\ Returned => AbsNoiseBelow(ret.trace, WorkingType(ret.ty), ctx.absErr_exp - 1)

(***************************************************************************)
(* C8                                                                      *)
(***************************************************************************)
\* arg is an optional sign followed by digits only
WellFormedInteger(arg) ==
  LET i0 == IF Len(arg) > 0 /\ arg[1] \in {"-", "+"} THEN 2 ELSE 1
  IN  i0 <= Len(arg) /\ \A i \in i0..Len(arg) : IsDigit(arg[i])

\* arg is an optional sign, digits and at most one decimal point
WellFormedDecimal(arg) ==
  LET i0 == IF Len(arg) > 0 /\ arg[1] \in {"-", "+"} THEN 2 ELSE 1
  IN  /\ \E i \in i0..Len(arg) : IsDigit(arg[i])
      /\ \A i \in i0..Len(arg) : IsDigit(arg[i]) \/ arg[i] = "."
      /\ Cardinality({i \in i0..Len(arg) : arg[i] = "."}) <= 1

\* the values the documentation of the options admits
ValidOption(key, arg) ==
  CASE key = "KEY_PREC_B32" -> WellFormedInteger(arg) /\ strtol(arg).val \in 1..53
    [] key = "KEY_PREC_B64" -> WellFormedInteger(arg) /\ strtol(arg).val \in 1..112
    [] key = "KEY_MODE" ->
         \E m \in {<<"i", "e", "e", "e">>, <<"m", "c", "a">>, <<"p", "b">>, <<"r", "r">>} :
           strcasecmp_eq(m, arg)
    [] key = "KEY_ERR_MODE" ->
         \E m \in {<<"r", "e", "l">>, <<"a", "b", "s">>, <<"a", "l", "l">>} : strcasecmp_eq(m, arg)
    [] key = "KEY_ERR_EXP" -> WellFormedInteger(arg)
    [] key = "KEY_SEED" -> WellFormedInteger(arg)
    [] key = "KEY_SPARSITY" ->
         /\ WellFormedDecimal(arg)
         /\ FLess(FltZero(0, binary32), strtof(arg), binary32)
         /\ FLessEq(strtof(arg), FltOf(0, 1, 0, binary32), binary32)
    [] OTHER -> TRUE

\* C8: for every recognized option an out-of-range or unparseable value
\* drives initialization into the fatal outcome, so that interflop_init never
\* returns a backend and no arithmetic entry point runs with that value in
\* the context.
C8_InvalidOptionFatal ==
  /\ phase = "parsing" =>
       \A o \in OptionArgs :
         ~ValidOption(o[1], o[2]) => parse_opt(o[1], o[2], St).phase = "fatal"
  /\ phase = "ready" =>
       /\ FLess(FltZero(0, binary32), ctx.sparsity, binary32)
       /\ FLessEq(ctx.sparsity, FltOf(0, 1, 0, binary32), binary32)
  /\ pc # "idle" => phase = "ready"

(***************************************************************************)
(* C9                                                                      *)
(***************************************************************************)
PrecisionsInRange == MCALIB_BINARY32_T \in 1..53 /\ MCALIB_BINARY64_T \in 1..112

\* a SET_PRECISION user call has just been made
SetPrecisionStep ==
  (ret = NoCall /\ ret' # NoCall
     /\ ret'.kind \in {"INTERFLOP_SET_PRECISION_BINARY32", "INTERFLOP_SET_PRECISION_BINARY64"})
  => LET p == ret'.precision
     IN  IF ret'.kind = "INTERFLOP_SET_PRECISION_BINARY32"
           THEN IF p \in 1..53
                  THEN /\ MCALIB_BINARY32_T' = p
                       /\ UNCHANGED <<MCALIB_BINARY64_T, MCALIB_MODE, ctx, phase>>
                  ELSE /\ phase' = "fatal"
                       /\ UNCHANGED <<MCALIB_BINARY32_T, MCALIB_BINARY64_T, MCALIB_MODE, ctx>>
           ELSE IF p \in 1..112
                  THEN /\ MCALIB_BINARY64_T' = p
                       /\ UNCHANGED <<MCALIB_BINARY32_T, MCALIB_MODE, ctx, phase>>
                  ELSE /\ phase' = "fatal"
                       /\ UNCHANGED <<MCALIB_BINARY32_T, MCALIB_BINARY64_T, MCALIB_MODE, ctx>>

\* C9: after interflop_init and any sequence of arithmetic calls and
\* SET_PRECISION user calls the binary32 precision lies in [1, 53] and the
\* binary64 precision in [1, 112]; a SET_PRECISION call with an in-range value
\* replaces exactly that precision; a call with an out-of-range value is
\* fatal, changes nothing and no operation runs after it.
C9_PrecisionRange ==
  /\ [](PrecisionsInRange /\ (pc # "idle" => phase = "ready"))
  /\ [][SetPrecisionStep]_vars

C9_Witness ==
  /\ phase = "ready" /\ pc = "inexact_RES" /\ call.ty = "float"
  /\ MCALIB_BINARY32_T = 1 /\ MCALIB_BINARY64_T = 54
  /\ MCALIB_MODE = "mcamode_rr"

(***************************************************************************)
(* C10                                                                     *)
(***************************************************************************)
\* the virtual precision configured for a type, binary128 values being
\* perturbed at the precision of the widest configured type
ConfiguredPrecision(ftype) ==
  IF ftype = "FFLOAT" THEN MCALIB_BINARY32_T ELSE MCALIB_BINARY64_T

\* C10: for the INEXACT user call and every ftype of FLOAT, DOUBLE and QUAD,
\* the virtual precision used for the perturbation is t_type + precision when
\* precision <= 0 and precision itself when precision > 0.
C10_UserCallPrecision ==
  (ret # NoCall /\ ret.kind = "INTERFLOP_INEXACT_ID" /\ ret.draws = 1)
  => LET t == IF ret.precision <= 0 THEN ConfiguredPrecision(ret.ftype) + ret.precision
              ELSE ret.precision
         W == IF ret.ftype = "FFLOAT" THEN binary64 ELSE binary128
         x == Convert(ret.arg, FtypeFormat(ret.ftype), W)
     IN  /\ ret.t = t
         /\ \E u \in get_rand_double01 :
              ret.noise_rel = <<_NOISE(W, GET_EXP_FLT(x, W) - (t - 1), u)>>

\* the same for FLOAT and DOUBLE only
C10_UserCallPrecisionFloatDouble ==
  (ret # NoCall /\ ret.kind = "INTERFLOP_INEXACT_ID" /\ ret.ftype # "FQUAD")
  => C10_UserCallPrecision

(***************************************************************************)
(* C11                                                                     *)
(***************************************************************************)
UserInexactReturned == ret # NoCall /\ ret.kind = "INTERFLOP_INEXACT_ID"

\* the type _FAST_INEXACT works at for an ftype, and the value it is handed
FastType(ftype) == IF ftype = "FFLOAT" THEN binary64 ELSE binary128
FastInput(ftype, value) ==
  IF ftype = "FQUAD" THEN value ELSE Convert(value, FtypeFormat(ftype), FastType(ftype))

\* value + noise stored back into a variable of format fmt
StoredSum(x, noise, W, fmt) ==
  IF W = fmt THEN FAdd(x, noise, W) ELSE Convert(FAdd(x, noise, W), W, fmt)

\* one relative noise term noise(GET_EXP(x) - (t - 1)) of the draw u was added to x
OneRelativeNoise(r, x, W, fmt, u) ==
  /\ r.noise_rel = <<_NOISE(W, GET_EXP_FLT(x, W) - (r.t - 1), u)>>
  /\ r.value = StoredSum(x, r.noise_rel[1], W, fmt)

\* C11: the fast inexact path of the INEXACT user call adds exactly one
\* relative noise term noise(GET_EXP(x) - (t - 1)), with one draw, to a normal
\* or subnormal x whenever the mode is not IEEE, whatever the mode, the
\* representability of x at t, the sparsity and the error mode; in mode IEEE
\* or for a zero, an infinity or a NaN the pointed-to value is left
\* bit-identical and no draw is made.
C11_FastInexact ==
  UserInexactReturned
  => IF MCALIB_MODE = "mcamode_ieee"
          \/ FPCLASSIFY(ret.arg, FtypeFormat(ret.ftype)) \in {"FP_ZERO", "FP_INFINITE", "FP_NAN"}
       THEN ret.value = ret.arg /\ ret.draws = 0 /\ ret.noise_rel = <<>>
       ELSE /\ ret.draws = 1
            /\ \E u \in get_rand_double01 :
                 OneRelativeNoise(ret, FastInput(ret.ftype, ret.arg), FastType(ret.ftype),
                                  FtypeFormat(ret.ftype), u)

\* random rounding, a sparsity below 1, absolute error only: 3 is representable
\* at every precision, is perturbed all the same and comes back different
C11_Witness ==
  /\ UserInexactReturned
  /\ MCALIB_MODE = "mcamode_rr"
  /\ ~ctx.relErr /\ ctx.absErr /\ ctx.sparsity = Half32
  /\ ret.arg = FltThree(FtypeFormat(ret.ftype))
  /\ ret.precision = 12
  /\ ret.draws = 1 /\ Len(ret.noise_rel) = 1
  /\ ret.value # ret.arg

\* an infinity handed to the user call in a mode other than IEEE comes back untouched
C11_WitnessSpecial ==
  /\ UserInexactReturned
  /\ MCALIB_MODE = "mcamode_mca"
  /\ ret.arg = FltInf(0, FtypeFormat(ret.ftype))
  /\ ret.value = ret.arg /\ ret.draws = 0

(***************************************************************************)
(* C12                                                                     *)
(***************************************************************************)
\* the IEEE result of a op b in the operand type overflows: finite operands,
\* no division by zero, an infinite result
Overflows(ty, a, b, op) ==
  /\ IsFinite(a, OperandType(ty)) /\ IsFinite(b, OperandType(ty))
  /\ ~(op = "mca_div" /\ FPCLASSIFY(b, OperandType(ty)) = "FP_ZERO")
  /\ FPCLASSIFY(NativeOp(ty, a, b, op), OperandType(ty)) = "FP_INFINITE"

\* the inexact step on the result, if the mode has one, drew nothing and added nothing
ResultUnnoised(tr) ==
  \A i \in 1..Len(tr) :
    tr[i].step = "INEXACT_RES"
    => tr[i].draws = 0 /\ tr[i].noise_rel = <<>> /\ tr[i].noise_abs = <<>>

\* C12: when the IEEE result of a op b in the operand type overflows to an
\* infinity, the driver returns bit-exactly that infinity in every mode, and
\* no noise is applied to the result: no draw is made for it.
C12_OverflowInfinity ==
  (Returned /\ Overflows(ret.ty, ret.a, ret.b, ret.op))
  => /\ ret.value = NativeOp(ret.ty, ret.a, ret.b, ret.op)
     /\ ResultUnnoised(ret.trace)

(***************************************************************************)
(* C13                                                                     *)
(***************************************************************************)
\* every step touches only the instance of rng_state of the thread that takes it
OwnStateOnly == access.instance # 0 => access.instance = access.thread

\* a state that has produced a draw was seeded, by the thread that owns it
SeededBeforeDraw ==
  \A t \in Threads :
    rng_state[t].drawn
    => rng_state[t].random_state_valid /\ rng_state[t].seeded_by = t

DistinctTids ==
  /\ \A t, u \in Threads :
       (t # u /\ rng_state[t].tid # 0 /\ rng_state[u].tid # 0)
       => rng_state[t].tid # rng_state[u].tid
  /\ global_tid = Cardinality({t \in Threads : rng_state[t].tid # 0})

ScaledDraw(W, exp, u) ==
  RoundReal([ToReal(FSub(Convert(u, binary64, W), FltOf(0, 1, -1, W), W), W)
               EXCEPT !.exp = @ + exp], W)

\* n is (u - 1/2) * 2^exp for a draw u of get_rand_double01: a zero of either
\* sign for u = 1/2, a normal number otherwise
IsScaledDraw(n, W, exp) ==
  /\ FPCLASSIFY(n, W) \in {"FP_ZERO", "FP_NORMAL"}
  /\ \E u \in get_rand_double01 : FEq(n, ScaledDraw(W, exp, u), W)

\* the noise values recorded by the _INEXACT steps of tr, called on type W
\* at precision t with context c
NoiseIsScaledDraw(tr, W, t, c) ==
  \A i \in 1..Len(tr) :
    /\ \A j \in 1..Len(tr[i].noise_rel) :
         IsScaledDraw(tr[i].noise_rel[j], W, GET_EXP_FLT(tr[i].before[1], W) - (t - 1))
    /\ \A j \in 1..Len(tr[i].noise_abs) :
         IsScaledDraw(tr[i].noise_abs[j], W, c.absErr_exp)

\* C14: for every draw u of (0, 1), u = 1/2 included, and every exponent e
\* that _INEXACT passes, _noise_binary64 and _noise_binary128 return exactly
\* (u - 1/2) * 2^e: the exponent field stays in the normal range and a zero
\* draw stays a zero.
C14_NoiseScaling ==
  pc # "idle"
  => NoiseIsScaledDraw(trace, WorkingType(call.ty), VirtualPrecision(call.ty), ctx)

=============================================================================
